---- MODULE Spec2Model ----
(***************************************************************************)
(* accelerate-iq: the step wizard of src/app/page.tsx, the two API routes  *)
(* it calls (/api/extract, /api/analyze) and the parallel bank-statement   *)
(* conversion of src/lib/convertBankStatements.ts.                         *)
(*                                                                         *)
(* JSON objects are TLA+ records whose DOMAIN is the set of keys present;  *)
(* an absent key is JavaScript's undefined.  Texts the code only passes    *)
(* on are tokens; a text the code prefixes is a sequence of its parts.     *)
(***************************************************************************)
EXTENDS Integers, Sequences, FiniteSets, TLC

VARIABLES
    step,        \* page.tsx:15   useState<Step>
    inputType,   \* page.tsx:16   useState<InputType>
    analysis,    \* page.tsx:17   useState<FinancialAnalysis | null>
    error,       \* page.tsx:18   useState<string | null>
    apiKey,      \* process.env.ANTHROPIC_API_KEY of the server
    subs,        \* the invocations of handleUploadComplete, in start order
    modelCalls,  \* the client.messages.create calls made so far
    rq,          \* route level: the request being served
    rs,          \* route level: the response produced for rq
    cv           \* lib level: one run of convertBankStatementsToManagementAccounts

vars == <<step, inputType, analysis, error, apiKey, subs, modelCalls, rq, rs, cv>>

wizardVars == <<step, inputType, analysis, error, subs>>

(***************************************************************************)
(* Bounds of the model.                                                    *)
(***************************************************************************)
MaxFiles == 2

MaxSubmissions == 2

MaxRequests == 3

MaxAmount == 1

(***************************************************************************)
(* Values.                                                                 *)
(***************************************************************************)
Null == [null |-> TRUE]

NoFile == [name |-> "", ext |-> "", base |-> ""]

\* A File: its name, name.toLowerCase().split('.').pop() and
\* name.replace('.pdf', '') (TLC has no string operations, so the two derived
\* strings travel with the name).
Files ==
    { [name |-> "jan.pdf",   ext |-> "pdf",  base |-> "jan"],
      [name |-> "feb.pdf",   ext |-> "pdf",  base |-> "feb"],
      [name |-> "bank.csv",  ext |-> "csv",  base |-> "bank.csv"],
      [name |-> "tb.xlsx",   ext |-> "xlsx", base |-> "tb.xlsx"],
      [name |-> "note.docx", ext |-> "docx", base |-> "note.docx"] }

\* The files of the wizard specification, and those of the pipeline one
WizardFiles == { f \in Files : f.name = "jan.pdf" }

PipelineFiles == { f \in Files : f.ext \in {"pdf", "csv"} }

InputTypes == {"management", "bank"}

KeyUnset == ""

KeyPlaceholder == "your_api_key_here"

KeyValid == "sk-ant-valid"

ApiKeys == {KeyUnset, KeyPlaceholder, KeyValid}

HaikuModel == "claude-haiku-4-5-20251001"

SonnetModel == "claude-sonnet-4-5-20250929"

SeqsUpTo(S, n) == UNION { [1..k -> S] : k \in 0..n }

NonEmptySeqsUpTo(S, n) == UNION { [1..k -> S] : k \in 1..n }

\* obj.key ?? dflt, for a key that is never null
Get(obj, key, dflt) == IF key \in DOMAIN obj THEN obj[key] ELSE dflt

\* (obj.key as number) || 0
OrZero(obj, key) == IF key \in DOMAIN obj THEN obj[key] ELSE 0

\* { ...base, ...over }: the keys of over win
Spread(base, over) == over @@ base

(***************************************************************************)
(* Replies of the hosted model to one client.messages.create call.         *)
(*   throws   the call rejects (network, 4xx/5xx, empty content)           *)
(*   nonText  content[0].type is not 'text'                                *)
(*   text     content[0].text; fenced: wrapped in ``` fences; valid: what  *)
(*            is left without the fences is JSON, of value `value`         *)
(***************************************************************************)
Throws == [kind |-> "throws"]

NonText == [kind |-> "nonText"]

TextReply(fenced, valid, value) ==
    [kind |-> "text", fenced |-> fenced, valid |-> valid, value |-> value]

Garbage == TextReply(FALSE, FALSE, Null)

\* raw.replace(/```json\n?/g, '').replace(/```\n?/g, '').trim()
StripFences(text) == [text EXCEPT !.fenced = FALSE]

\* JSON.parse: [ok, value]; a fenced text is not JSON
JSONParse(text) ==
    IF text.valid /\ ~text.fenced
    THEN [ok |-> TRUE, value |-> text.value]
    ELSE [ok |-> FALSE, value |-> Null]

(***************************************************************************)
(* /api/extract  (src/app/api/extract/route.ts)                            *)
(* A request is [readable, file, inputType]: readable is whether           *)
(* req.formData() succeeds, inputType is "" when the field is missing.     *)
(***************************************************************************)
NoCall == [kind |-> "none"]

EmptyObject == [k \in {} |-> 0]

Json(status, body) == [status |-> status, body |-> body]

\* formData.get('inputType') as string || 'bank'
ExtractInputType(req) == IF req.inputType = "" THEN "bank" ELSE req.inputType

SpreadsheetExts == {"xlsx", "xls", "xlsm"}

\* Variant for comparison: only spreadsheets are read without the model
ExtractCallsModelUnlessSheet(req, key) ==
    /\ req.readable
    /\ req.file # NoFile
    /\ req.file.ext \notin SpreadsheetExts
    /\ key # ""

\* The request reaches `new Anthropic()` (route.ts:63): every earlier return
\* of the handler has been passed.
ExtractCallsModel(req, key) ==
    /\ req.readable
    /\ req.file # NoFile
    /\ req.file.ext \notin SpreadsheetExts
    /\ req.file.ext # "csv"
    /\ req.file.ext = "pdf"
    /\ key # ""

ExtractFallback(file) ==
    [type |-> "monthly", filename |-> file.name, period |-> file.name,
     credits |-> 0, debits |-> 0, openingBal |-> 0, closingBal |-> 0,
     topIncome |-> <<>>, topExpenses |-> <<>>, parseError |-> "clean.substring(0, 200)"]

\* Variant for comparison: the placeholder tagged as text
ExtractPlaceholderText(file) ==
    [type |-> "text", filename |-> file.name, period |-> "Demo",
     credits |-> 0, debits |-> 0, openingBal |-> 0, closingBal |-> 0,
     topIncome |-> <<>>, topExpenses |-> <<>>]

ExtractPlaceholder(file) ==
    [type |-> "monthly", filename |-> file.name, period |-> "Demo",
     credits |-> 0, debits |-> 0, openingBal |-> 0, closingBal |-> 0,
     topIncome |-> <<>>, topExpenses |-> <<>>]

ExtractServerError == Json(500, [error |-> "Extraction failed: ..."])

\* The bank branch without its fallback: a reply that does not parse is an
\* error response
ExtractBankReplyStrict(file, reply) ==
    LET raw    == IF reply.kind = "text" THEN reply ELSE TextReply(FALSE, TRUE, EmptyObject)
        parsed == JSONParse(StripFences(raw))
    IN  IF parsed.ok
        THEN Json(200, Spread([type |-> "monthly", filename |-> file.name], parsed.value))
        ELSE ExtractServerError

\* The bank branch after the model call (route.ts:88-95)
ExtractBankReply(file, reply) ==
    LET raw    == IF reply.kind = "text" THEN reply ELSE TextReply(FALSE, TRUE, EmptyObject)
        parsed == JSONParse(StripFences(raw))
    IN  IF parsed.ok
        THEN Json(200, Spread([type |-> "monthly", filename |-> file.name], parsed.value))
        ELSE Json(200, ExtractFallback(file))

\* The management branch after the model call (route.ts:118-119)
ExtractManagementReply(file, reply) ==
    Json(200, [type |-> "text", filename |-> file.name,
               rawText |-> IF reply.kind = "text" THEN "model text" ELSE ""])

\* POST of /api/extract; reply is the model's reply when the handler calls
\* the model and NoCall otherwise.
ExtractRoute(req, key, reply) ==
    IF ~req.readable THEN ExtractServerError
    ELSE IF req.file = NoFile THEN Json(400, [error |-> "No file provided"])
    ELSE IF req.file.ext \in SpreadsheetExts
    THEN Json(200, [type |-> "text", filename |-> req.file.name, rawText |-> "sheet csv"])
    ELSE IF req.file.ext = "csv"
    THEN Json(200, [type |-> "text", filename |-> req.file.name, rawText |-> "file text"])
    ELSE IF req.file.ext # "pdf"
    THEN Json(200, [type |-> "text", filename |-> req.file.name, rawText |-> "file text"])
    ELSE IF key = "" THEN Json(200, ExtractPlaceholder(req.file))
    ELSE IF reply.kind = "throws" THEN ExtractServerError
    ELSE IF ExtractInputType(req) = "bank" THEN ExtractBankReply(req.file, reply)
    ELSE ExtractManagementReply(req.file, reply)

(***************************************************************************)
(* /api/analyze  (src/app/api/analyze/route.ts)                            *)
(* A request is [readable, body]; body is the parsed JSON object.          *)
(***************************************************************************)
MockHealthScore == 67

MockSummary == [part |-> "mock summary"]

NoKeyPrefix == [part |-> "DEMO MODE - No API key configured on this server. ..."]

ApiErrorPrefix == [part |-> "[Demo Mode - API error] "]

MonthNames ==
    <<"Jan", "Feb", "Mar", "Apr", "May", "Jun",
      "Jul", "Aug", "Sep", "Oct", "Nov", "Dec">>

MockRevenue ==
    <<165000, 175000, 180000, 195000, 190000, 210000,
      205000, 220000, 215000, 235000, 230000, 380000>>

MockExpenses ==
    <<140000, 148000, 152000, 158000, 162000, 170000,
      168000, 175000, 178000, 185000, 190000, 275000>>

getMockAnalysis ==
    [businessName |-> "businessName", period |-> "FY yearEnd",
     healthScore |-> MockHealthScore, healthGrade |-> "Moderate",
     healthSummary |-> <<MockSummary>>,
     kpis |-> [revenue |-> "R 2.4M", grossMargin |-> "34%", netMargin |-> "7.2%",
               currentRatio |-> "1.3x", cashRunway |-> "3.1 mo", debtToEquity |-> "0.8x"],
     monthlyData |-> [i \in 1..Len(MonthNames) |->
                        [month |-> MonthNames[i], revenue |-> MockRevenue[i],
                         expenses |-> MockExpenses[i]]],
     recommendations |-> <<[priority |-> "high"], [priority |-> "medium"],
                           [priority |-> "low"]>>,
     supportAreas |-> <<[level |-> "urgent"], [level |-> "urgent"],
                        [level |-> "recommended"], [level |-> "recommended"],
                        [level |-> "recommended"], [level |-> "optional"]>>,
     executiveSummary |-> "mock executive summary",
     keyStrengths |-> <<"growth", "net margin", "debt-to-equity">>,
     keyRisks |-> <<"cash runway", "current ratio", "gross margin">>]

RECURSIVE SumOf(_, _)
\* seq.reduce((s, m) => s + ((m[key] as number) || 0), 0)
SumOf(seq, key) ==
    IF seq = <<>> THEN 0 ELSE OrZero(Head(seq), key) + SumOf(Tail(seq), key)

IsMonthly(e) == Get(e, "type", "") = "monthly"

IsText(e) == Get(e, "type", "") = "text"

Truthy(str) == str # ""

\* monthly.map(m => m.period as string).filter(Boolean)
PeriodsOf(monthly) ==
    LET all == [i \in 1..Len(monthly) |-> Get(monthly[i], "period", "")]
    IN  SelectSeq(all, Truthy)

\* Variant for comparison: the debits are left out of the net profit
buildManagementAccountsGross(extractions) ==
    LET monthly      == SelectSeq(extractions, IsMonthly)
        totalCredits == SumOf(monthly, "credits")
        totalDebits  == SumOf(monthly, "debits")
        periods      == PeriodsOf(monthly)
    IN  [months       |-> Len(monthly),
         totalCredits |-> totalCredits,
         totalDebits  |-> totalDebits,
         netProfit    |-> totalCredits,
         openingBal   |-> IF monthly = <<>> THEN 0 ELSE Get(monthly[1], "openingBal", 0),
         closingBal   |-> IF monthly = <<>> THEN 0
                          ELSE Get(monthly[Len(monthly)], "closingBal", 0),
         periodRange  |-> IF periods = <<>> THEN <<"Full Year">>
                          ELSE <<periods[1], periods[Len(periods)]>>,
         monthRows    |-> [i \in 1..Len(monthly) |->
                            [period  |-> "Unknown",
                             credits |-> OrZero(monthly[i], "credits"),
                             debits  |-> OrZero(monthly[i], "debits"),
                             net     |-> OrZero(monthly[i], "credits")
                                         - OrZero(monthly[i], "debits")]],
         additional   |-> <<>>]

\* The document sent to the analysis model in bank mode, with its figures
\* before formatting (route.ts:90-159).
buildManagementAccountsFromExtractions(extractions) ==
    LET monthly      == SelectSeq(extractions, IsMonthly)
        texts        == SelectSeq(extractions, IsText)
        totalCredits == SumOf(monthly, "credits")
        totalDebits  == SumOf(monthly, "debits")
        periods      == PeriodsOf(monthly)
    IN  [months       |-> Len(monthly),
         totalCredits |-> totalCredits,
         totalDebits  |-> totalDebits,
         netProfit    |-> totalCredits - totalDebits,
         openingBal   |-> IF monthly = <<>> THEN 0 ELSE Get(monthly[1], "openingBal", 0),
         closingBal   |-> IF monthly = <<>> THEN 0
                          ELSE Get(monthly[Len(monthly)], "closingBal", 0),
         periodRange  |-> IF periods = <<>> THEN <<"Full Year">>
                          ELSE <<periods[1], periods[Len(periods)]>>,
         monthRows    |-> [i \in 1..Len(monthly) |->
                            [period  |-> IF Truthy(Get(monthly[i], "period", ""))
                                         THEN monthly[i].period ELSE "Unknown",
                             credits |-> OrZero(monthly[i], "credits"),
                             debits  |-> OrZero(monthly[i], "debits"),
                             net     |-> OrZero(monthly[i], "credits")
                                         - OrZero(monthly[i], "debits")]],
         additional   |-> [i \in 1..Len(texts) |-> Get(texts[i], "filename", "Document")]]

\* Amounts are counted in units of 1/AmountScale rand
AmountScale == 2

\* fmt: n.toLocaleString('en-ZA', {maximumFractionDigits: 0}), the amount in
\* whole rand, halves rounded away from zero
fmt(n) ==
    IF n >= 0 THEN (2 * n + AmountScale) \div (2 * AmountScale)
    ELSE 0 - ((2 * (0 - n) + AmountScale) \div (2 * AmountScale))

\* The figures as the document prints them (route.ts:120-141)
PrintedAccounts(doc) ==
    [totalRevenue  |-> fmt(doc.totalCredits),
     totalExpenses |-> fmt(doc.totalDebits),
     netProfit     |-> fmt(doc.netProfit),
     openingBal    |-> fmt(doc.openingBal),
     closingBal    |-> fmt(doc.closingBal),
     monthRows     |-> [i \in 1..Len(doc.monthRows) |->
                          [period  |-> doc.monthRows[i].period,
                           credits |-> fmt(doc.monthRows[i].credits),
                           debits  |-> fmt(doc.monthRows[i].debits),
                           net     |-> fmt(doc.monthRows[i].net)]]]

\* The management-mode text: one section per extraction, in order (route.ts:54-56)
ConcatExtractions(extractions) ==
    [sections |-> [i \in 1..Len(extractions) |->
                    Get(extractions[i], "filename", "Document")]]

\* conversionNote (route.ts:46-51): <<>> stands for ''
ConversionNote(extractions) ==
    LET periods == PeriodsOf(SelectSeq(extractions, IsMonthly))
    IN  IF periods = <<>> THEN <<>>
        ELSE <<[part |-> "[Converted from", count |-> Len(periods),
                from |-> periods[1], to |-> periods[Len(periods)]]>>

\* !process.env.ANTHROPIC_API_KEY || ... === 'your_api_key_here' (route.ts:34)
AnalyzeKeyMissing(key) == key = "" \/ key = KeyPlaceholder

HasExtractions(body) ==
    "extractions" \in DOMAIN body /\ body.extractions # <<>>

AnalyzeCallsModel(req, key) ==
    /\ req.readable
    /\ HasExtractions(req.body)
    /\ ~AnalyzeKeyMissing(key)

\* What analyzeFinancials is given as its input text (route.ts:44-57)
AnalyzePrompt(body) ==
    IF body.inputType = "bank"
    THEN buildManagementAccountsFromExtractions(body.extractions)
    ELSE ConcatExtractions(body.extractions)

\* analyzeFinancials (src/lib/analyzeFinancials.ts:183-199): the parsed reply,
\* or a throw
analyzeFinancials(reply) ==
    IF reply.kind = "throws" THEN [ok |-> FALSE, value |-> Null]
    ELSE LET text == IF reply.kind = "text" THEN reply ELSE Garbage
         IN  JSONParse(StripFences(text))

\* /api/analyze without the inner try/catch: a failed analysis reaches the
\* outer catch
AnalyzeRouteNoFallback(req, key, reply) ==
    IF ~req.readable THEN Json(500, [error |-> "Analysis failed: ..."])
    ELSE IF ~HasExtractions(req.body)
    THEN Json(400, [error |-> "No extracted data provided"])
    ELSE IF AnalyzeKeyMissing(key)
    THEN Json(200, [getMockAnalysis EXCEPT
                      !.healthSummary = <<NoKeyPrefix>> \o getMockAnalysis.healthSummary])
    ELSE LET res == analyzeFinancials(reply)
         IN  IF res.ok THEN Json(200, res.value)
             ELSE Json(500, [error |-> "Analysis failed: ..."])

\* What string concatenation makes of a missing healthSummary
Undefined == <<[part |-> "undefined"]>>

\* Variant for comparison: /api/analyze puts the score into 0..100 itself
AnalyzeRouteClamped(req, key, reply) ==
    IF ~req.readable THEN Json(500, [error |-> "Analysis failed: ..."])
    ELSE IF ~HasExtractions(req.body)
    THEN Json(400, [error |-> "No extracted data provided"])
    ELSE IF AnalyzeKeyMissing(key)
    THEN Json(200, [getMockAnalysis EXCEPT
                      !.healthSummary = <<NoKeyPrefix>> \o getMockAnalysis.healthSummary])
    ELSE LET res == analyzeFinancials(reply)
         IN  IF res.ok
             THEN Json(200, Spread(res.value,
                              [healthScore |->
                                 IF Get(res.value, "healthScore", 0) > 100 THEN 100
                                 ELSE Get(res.value, "healthScore", 0)]))
             ELSE Json(200, [getMockAnalysis EXCEPT
                      !.healthSummary = <<ApiErrorPrefix>> \o getMockAnalysis.healthSummary])

\* Variant for comparison: the API key is checked before the extractions
AnalyzeRouteKeyFirst(req, key, reply) ==
    IF ~req.readable THEN Json(500, [error |-> "Analysis failed: ..."])
    ELSE IF AnalyzeKeyMissing(key)
    THEN Json(200, [getMockAnalysis EXCEPT
                      !.healthSummary = <<NoKeyPrefix>> \o getMockAnalysis.healthSummary])
    ELSE IF ~HasExtractions(req.body)
    THEN Json(400, [error |-> "No extracted data provided"])
    ELSE LET res == analyzeFinancials(reply)
         IN  IF res.ok THEN Json(200, res.value)
             ELSE Json(200, [getMockAnalysis EXCEPT
                      !.healthSummary = <<ApiErrorPrefix>> \o getMockAnalysis.healthSummary])

\* POST of /api/analyze
AnalyzeRoute(req, key, reply) ==
    IF ~req.readable THEN Json(500, [error |-> "Analysis failed: ..."])
    ELSE IF ~HasExtractions(req.body)
    THEN Json(400, [error |-> "No extracted data provided"])
    ELSE IF AnalyzeKeyMissing(key)
    THEN Json(200, [getMockAnalysis EXCEPT
                      !.healthSummary = <<NoKeyPrefix>> \o getMockAnalysis.healthSummary])
    ELSE LET note == IF req.body.inputType = "bank"
                     THEN ConversionNote(req.body.extractions) ELSE <<>>
             res  == analyzeFinancials(reply)
         IN  IF res.ok
             THEN Json(200, IF note # <<>>
                            THEN Spread(res.value,
                                   [healthSummary |->
                                      note \o Get(res.value, "healthSummary", Undefined)])
                            ELSE res.value)
             ELSE Json(200, [getMockAnalysis EXCEPT
                      !.healthSummary = <<ApiErrorPrefix>> \o getMockAnalysis.healthSummary])

(***************************************************************************)
(* Inputs: what the hosted model may reply.  The parsed replies carry the  *)
(* keys the prompts ask for.                                               *)
(***************************************************************************)
MonthA ==
    [period |-> "Jan 2024", credits |-> 1, debits |-> 0, openingBal |-> 1,
     closingBal |-> 0, topIncome |-> <<"Sales: R 1">>, topExpenses |-> <<>>]

MonthB ==
    [period |-> "", credits |-> 0, debits |-> 1, openingBal |-> 0,
     closingBal |-> 1, topIncome |-> <<>>, topExpenses |-> <<"Rent: R 1">>]

ScoreValues == {0, 50, 100, 101}

\* n monthlyData entries, as the prompt lays them out
MonthlyDataOf(n) ==
    [i \in 1..n |-> [month |-> MonthNames[((i - 1) % Len(MonthNames)) + 1],
                     revenue |-> 1, expenses |-> 1]]

\* A reply with every key of the prompt (analyzeFinancials.ts:79-130)
AnalysisValue(score) ==
    [businessName |-> "businessName", period |-> "FY yearEnd",
     healthScore |-> score, healthGrade |-> "Good",
     healthSummary |-> <<[part |-> "model summary"]>>,
     kpis |-> [revenue |-> "R 1", grossMargin |-> "1%", netMargin |-> "1%",
               currentRatio |-> "1x", cashRunway |-> "1 mo", debtToEquity |-> "1x"],
     monthlyData |-> MonthlyDataOf(Len(MonthNames)),
     recommendations |-> <<[priority |-> "high"], [priority |-> "medium"],
                           [priority |-> "low"]>>,
     supportAreas |-> <<[level |-> "urgent"]>>,
     executiveSummary |-> "model executive summary",
     keyStrengths |-> <<"strength">>,
     keyRisks |-> <<"risk">>]

Restrict(obj, keys) == [k \in DOMAIN obj \cap keys |-> obj[k]]

\* Well-formed JSON objects that lack keys of the prompt
PartialAnalyses ==
    { EmptyObject,
      Restrict(AnalysisValue(50), {"healthScore", "healthGrade", "healthSummary"}),
      Restrict(AnalysisValue(50), DOMAIN AnalysisValue(50) \ {"healthSummary"}) }

\* How many monthlyData entries a reply may hold
MonthCounts == {0, 3, 12, 13}

MonthlyAnalyses ==
    { [AnalysisValue(50) EXCEPT !.monthlyData = MonthlyDataOf(n)] : n \in MonthCounts }

\* The platform answers for a handler that is still inside its model call when
\* maxDuration runs out (extract/route.ts:5, analyze/route.ts:4): no JSON body.
GatewayTimeout == [status |-> 504, body |-> [html |-> TRUE]]

\* A key the API does not accept makes every call reject.
RepliesFor(key, replies) == IF key = KeyValid THEN replies ELSE {Throws}

WizardExtractReplies == {Throws, TextReply(FALSE, TRUE, MonthA)}

WizardAnalyzeReplies == {Throws, TextReply(FALSE, TRUE, AnalysisValue(50))}

PipelineExtractReplies ==
    {Throws, Garbage, TextReply(FALSE, TRUE, MonthA), TextReply(FALSE, TRUE, MonthB)}

PipelineAnalyzeReplies ==
    {Throws, Garbage, TextReply(FALSE, TRUE, AnalysisValue(50)),
     TextReply(FALSE, TRUE, EmptyObject)}

(***************************************************************************)
(* The wizard  (src/app/page.tsx)                                          *)
(***************************************************************************)
Pending == [pending |-> TRUE]

IsPending(x) == "pending" \in DOMAIN x

IsOk(status) == status \in 200..299

\* One file's async callback after its fetch has answered (page.tsx:45-50):
\* the value it returns, or the Error it throws.
ExtractCallback(file, res) ==
    IF IsOk(res.status)
    THEN [ok |-> TRUE, value |-> res.body]
    ELSE [ok |-> FALSE,
          message |-> IF "error" \in DOMAIN res.body
                      THEN [text |-> res.body.error]
                      ELSE [text |-> "HTTP", status |-> res.status]]

\* Promise.all resolves once every callback has returned a value
PromiseAllResolved(results) ==
    \A i \in DOMAIN results : ~IsPending(results[i]) /\ results[i].ok

\* Variant for comparison: the values in the order the callbacks finished
ArrivalOrderValues(results, arrival) ==
    [k \in DOMAIN results |-> results[arrival[k]].value]

\* The array Promise.all resolves to: slot i holds the value of callback i
PromiseAllValues(results, arrival) ==
    [i \in DOMAIN results |-> results[i].value]

\* handleUploadComplete up to the first await (page.tsx:27-52): one
\* /api/extract request per file, all sent before any answer is looked at.
NewSubmission(files, type) ==
    [files       |-> files,
     inputType   |-> type,
     extractSent |-> [i \in DOMAIN files |-> 1],
     results     |-> [i \in DOMAIN files |-> Pending],
     arrival     |-> <<>>,
     settled     |-> "pending",
     analyzeSent |-> 0,
     body        |-> Null,
     analyzeRes  |-> Null]

\* What SettleExtract sends when it resolves
Resolve(seen) ==
    [seen EXCEPT
       !.settled     = "resolved",
       !.analyzeSent = @ + 1,
       !.body        = [inputType   |-> seen.inputType,
                        extractions |-> PromiseAllValues(seen.results, seen.arrival)],
       !.analyzeRes  = Pending]

\* Variant for comparison: the analyze request goes out with the first value, without
\* waiting for the other files
SettleExtractEager(sub, i, r) ==
    LET seen == [sub EXCEPT !.results[i] = r, !.arrival = Append(@, i)]
        got  == { j \in DOMAIN seen.results : ~IsPending(seen.results[j]) }
    IN  IF sub.settled # "pending" THEN seen
        ELSE IF ~r.ok THEN [seen EXCEPT !.settled = "rejected"]
        ELSE [seen EXCEPT
                !.settled     = "resolved",
                !.analyzeSent = @ + 1,
                !.body        = [inputType   |-> sub.inputType,
                                 extractions |-> <<r.value>>],
                !.analyzeRes  = Pending]

\* Variant for comparison: a failed file is left out and the others are analysed
\* (Promise.allSettled and a filter)
SettleExtractSkipFailed(sub, i, r) ==
    LET seen == [sub EXCEPT !.results[i] = r, !.arrival = Append(@, i)]
        oks  == SelectSeq(seen.results, LAMBDA x : ~IsPending(x) /\ x.ok)
    IN  IF \E j \in DOMAIN seen.results : IsPending(seen.results[j]) THEN seen
        ELSE IF oks = <<>> THEN [seen EXCEPT !.settled = "rejected"]
        ELSE [seen EXCEPT
                !.settled     = "resolved",
                !.analyzeSent = @ + 1,
                !.body        = [inputType   |-> sub.inputType,
                                 extractions |-> [k \in DOMAIN oks |-> oks[k].value]],
                !.analyzeRes  = Pending]

\* Variant for comparison: a failed request is sent once more
SettleExtractRetry(sub, i, r) ==
    IF ~r.ok /\ sub.extractSent[i] < 2
    THEN [sub EXCEPT !.extractSent[i] = @ + 1]
    ELSE LET seen == [sub EXCEPT !.results[i] = r, !.arrival = Append(@, i)]
         IN  IF sub.settled # "pending" THEN seen
             ELSE IF ~r.ok THEN [seen EXCEPT !.settled = "rejected"]
             ELSE IF PromiseAllResolved(seen.results) THEN Resolve(seen)
             ELSE seen

\* The submission after callback i has finished with result r (page.tsx:39-59):
\* a throw rejects Promise.all, the last value resolves it and the analyze
\* request goes out; a promise that is settled stays as it is.
SettleExtract(sub, i, r) ==
    LET seen == [sub EXCEPT !.results[i] = r, !.arrival = Append(@, i)]
    IN  IF sub.settled # "pending" THEN seen
        ELSE IF ~r.ok THEN [seen EXCEPT !.settled = "rejected"]
        ELSE IF PromiseAllResolved(seen.results) THEN Resolve(seen)
        ELSE seen

\* The message of the Error thrown for a non-OK analyze answer (page.tsx:61-73)
AnalyzeErrorMessage(res) ==
    IF "html" \notin DOMAIN res.body
    THEN [text |-> Get(res.body, "error", "Analysis failed (status)")]
    ELSE IF res.status = 504 \/ res.status = 502
    THEN [text |-> "Analysis timed out. Please try again."]
    ELSE [text |-> "Analysis failed (status)"]

ExtractRequest(file, type) == [readable |-> TRUE, file |-> file, inputType |-> type]

\* The answers a fetch of /api/extract can get.  The network delivers; only a
\* handler that waits for the model can run into the platform's time limit.
ExtractAnswers(req, key, replies) ==
    IF ExtractCallsModel(req, key)
    THEN { ExtractRoute(req, key, reply) : reply \in RepliesFor(key, replies) }
         \cup (IF key = KeyValid THEN {GatewayTimeout} ELSE {})
    ELSE { ExtractRoute(req, key, NoCall) }

AnalyzeAnswers(req, key, replies) ==
    IF AnalyzeCallsModel(req, key)
    THEN { AnalyzeRoute(req, key, reply) : reply \in RepliesFor(key, replies) }
         \cup {GatewayTimeout}
    ELSE { AnalyzeRoute(req, key, NoCall) }

ExtractCall(s, i) == [route |-> "extract", model |-> HaikuModel, s |-> s, i |-> i]

\* Variant for comparison: the request after extraction is a conversion call
ConversionCall(s) == [route |-> "convert", model |-> HaikuModel, s |-> s, i |-> 0]

\* Variant for comparison: the analysis call uses the model selected on the
\* upload screen
AnalyzeCallSelected(s) ==
    [route |-> "analyze", model |-> subs[s].model, s |-> s, i |-> 0]

AnalyzeCall(s) == [route |-> "analyze", model |-> SonnetModel, s |-> s, i |-> 0]

WizardInit ==
    /\ step = "choose"
    /\ inputType = "management"
    /\ analysis = Null
    /\ error = Null
    /\ subs = <<>>

Init ==
    /\ WizardInit
    /\ apiKey \in ApiKeys
    /\ modelCalls = {}
    /\ rq = Null
    /\ rs = Null
    /\ cv = Null

\* handleChoose (page.tsx:22-25)
Choose(type) ==
    /\ step = "choose"
    /\ inputType' = type
    /\ step' = "upload"
    /\ UNCHANGED <<analysis, error, apiKey, subs, modelCalls, rq, rs, cv>>

\* onBack of the upload screen (page.tsx:102)
Back ==
    /\ step = "upload"
    /\ step' = "choose"
    /\ UNCHANGED <<inputType, analysis, error, apiKey, subs, modelCalls, rq, rs, cv>>

RECURSIVE RequestsSent(_)
\* The /api/extract requests the submissions have sent so far
RequestsSent(ss) ==
    IF ss = <<>> THEN 0 ELSE Len(Head(ss).files) + RequestsSent(Tail(ss))

\* handleSubmit of the upload screen (UploadScreen.tsx:51-62) calling
\* handleUploadComplete, which runs to its first await (page.tsx:27-52)
\* The models offered by the selector of the upload screen; the first is the
\* preselected one (UploadScreen.tsx:29, 176)
AvailableModels == {SonnetModel, HaikuModel}

DefaultModel == SonnetModel

\* The invocation of handleUploadComplete for this submission has not yet
\* reached its end: it awaits Promise.all or the analyze fetch
HandlerRunning(sub) ==
    \/ sub.settled = "pending"
    \/ sub.settled = "resolved" /\ IsPending(sub.analyzeRes)

\* handleSubmit of the upload screen with the selected model, then
\* handleUploadComplete up to its first await (UploadScreen.tsx:51-62,
\* page.tsx:27-45).  The form data's model field is kept with the submission,
\* and so is the set of earlier submissions still running when it starts.
SubmitWith(files, model) ==
    /\ step = "upload"
    /\ Len(subs) < MaxSubmissions
    /\ RequestsSent(subs) + Len(files) <= MaxRequests
    /\ Len(files) > 0
    /\ step' = "processing"
    /\ error' = Null
    /\ subs' = Append(subs, Spread(NewSubmission(files, inputType),
                                   [model    |-> model,
                                    overlaps |-> { s \in DOMAIN subs :
                                                     HandlerRunning(subs[s]) }]))
    /\ UNCHANGED <<inputType, analysis, apiKey, modelCalls, rq, rs, cv>>

Submit(files) == SubmitWith(files, DefaultModel)

\* /api/extract serves the request of file i of submission s and the file's
\* callback resumes with the answer (extract/route.ts:17-126, page.tsx:45-52,
\* and the catch of page.tsx:78-81 when this rejects Promise.all).
ExtractAnswer(s, i, replies) ==
    /\ s \in DOMAIN subs
    /\ i \in DOMAIN subs[s].files
    /\ IsPending(subs[s].results[i])
    /\ LET sub == subs[s]
           req == ExtractRequest(sub.files[i], sub.inputType)
       IN  \E res \in ExtractAnswers(req, apiKey, replies) :
             LET r   == ExtractCallback(sub.files[i], res)
                 new == SettleExtract(sub, i, r)
             IN  /\ subs' = [subs EXCEPT ![s] = new]
                 /\ modelCalls' = IF ExtractCallsModel(req, apiKey)
                                  THEN modelCalls \cup {ExtractCall(s, i)}
                                  ELSE modelCalls
                 /\ IF sub.settled = "pending" /\ new.settled = "rejected"
                    THEN /\ error' = r.message
                         /\ step' = "upload"
                    ELSE UNCHANGED <<error, step>>
    /\ UNCHANGED <<inputType, analysis, apiKey, rq, rs, cv>>

\* /api/analyze serves the request of submission s and handleUploadComplete
\* resumes with the answer (analyze/route.ts:16-86, page.tsx:61-81).
AnalyzeAnswer(s, replies) ==
    /\ s \in DOMAIN subs
    /\ IsPending(subs[s].analyzeRes)
    /\ LET req == [readable |-> TRUE, body |-> subs[s].body]
       IN  \E res \in AnalyzeAnswers(req, apiKey, replies) :
             /\ subs' = [subs EXCEPT ![s].analyzeRes = res]
             /\ modelCalls' = IF AnalyzeCallsModel(req, apiKey)
                              THEN modelCalls \cup {AnalyzeCall(s)}
                              ELSE modelCalls
             /\ IF IsOk(res.status)
                THEN /\ analysis' = res.body
                     /\ step' = "dashboard"
                     /\ UNCHANGED error
                ELSE /\ error' = AnalyzeErrorMessage(res)
                     /\ step' = "upload"
                     /\ UNCHANGED analysis
    /\ UNCHANGED <<inputType, apiKey, rq, rs, cv>>

\* onNewAnalysis of the nav bar, shown on every step (page.tsx:86)
NewAnalysis ==
    /\ step' = "choose"
    /\ analysis' = Null
    /\ error' = Null
    /\ UNCHANGED <<inputType, apiKey, subs, modelCalls, rq, rs, cv>>

\* Variant for comparison: Re-analyse clears the report and stays where it is
ReanalyseInPlace ==
    /\ step = "dashboard"
    /\ analysis # Null
    /\ analysis' = Null
    /\ UNCHANGED <<step, inputType, error, apiKey, subs, modelCalls, rq, rs, cv>>

\* onReanalyse of the dashboard, rendered when step is 'dashboard' and an
\* analysis is stored (page.tsx:107-111)
Reanalyse ==
    /\ step = "dashboard"
    /\ analysis # Null
    /\ step' = "choose"
    /\ analysis' = Null
    /\ UNCHANGED <<inputType, error, apiKey, subs, modelCalls, rq, rs, cv>>

Next ==
    \/ \E type \in InputTypes : Choose(type)
    \/ Back
    \/ \E files \in NonEmptySeqsUpTo(WizardFiles, MaxFiles) : Submit(files)
    \/ \E s \in 1..MaxSubmissions, i \in 1..MaxFiles :
          ExtractAnswer(s, i, WizardExtractReplies)
    \/ \E s \in 1..MaxSubmissions : AnalyzeAnswer(s, WizardAnalyzeReplies)
    \/ NewAnalysis
    \/ Reanalyse

Spec == Init /\ [][Next]_vars

(***************************************************************************)
(* The pipeline specification: the wizard's first submission, followed     *)
(* with more kinds of file and of model reply.                             *)
(***************************************************************************)
SubmitFirst(files) ==
    /\ subs = <<>>
    /\ \E model \in AvailableModels : SubmitWith(files, model)

NextPipeline ==
    \/ \E type \in InputTypes : Choose(type)
    \/ Back
    \/ \E files \in NonEmptySeqsUpTo(PipelineFiles, MaxFiles) : SubmitFirst(files)
    \/ \E i \in 1..MaxFiles : ExtractAnswer(1, i, PipelineExtractReplies)
    \/ AnalyzeAnswer(1, PipelineAnalyzeReplies)
    \/ NewAnalysis
    \/ Reanalyse

SpecPipeline == Init /\ [][NextPipeline]_vars

(***************************************************************************)
(* Properties of the wizard (specification Spec).                          *)
(***************************************************************************)
Failed(x) == ~IsPending(x) /\ ~x.ok

Succeeded(x) == ~IsPending(x) /\ x.ok

HasFailure(sub) == \E i \in DOMAIN sub.results : Failed(sub.results[i])

\* C1: the step starts at 'choose' and changes only along choose -> upload ->
\* processing -> dashboard, by a return to 'choose', or from processing back
\* to upload.
C1_StepOrder ==
    /\ step = "choose"
    /\ [][step' # step =>
            \/ step' = "choose"
            \/ step = "choose" /\ step' = "upload"
            \/ step = "upload" /\ step' = "processing"
            \/ step = "processing" /\ step' = "dashboard"
            \/ step = "processing" /\ step' = "upload"]_vars

\* C2: a submission has sent its analyze request only if every one of its
\* files' extract requests has been answered OK; none of them is outstanding.
C2_AnalyzeAfterAllExtracts ==
    \A s \in DOMAIN subs :
        subs[s].analyzeSent > 0 =>
            \A i \in DOMAIN subs[s].files : Succeeded(subs[s].results[i])

C2_Witness ==
    \E s \in DOMAIN subs :
        /\ Len(subs[s].files) = 2
        /\ subs[s].analyzeSent = 1
        /\ subs[s].arrival = <<2, 1>>

\* C4: once one extract request of a submission has answered non-OK, no
\* analyze request of that submission is or will be sent, and the step in
\* which the first such answer is seen sets the error message and returns the
\* wizard to 'upload'.
C4_OneFailureFailsAll ==
    [][\A s \in DOMAIN subs' :
         HasFailure(subs'[s]) =>
            /\ subs'[s].analyzeSent = 0
            /\ subs'[s].settled = "rejected"
            /\ (s \in DOMAIN subs /\ ~HasFailure(subs[s]) =>
                    error' # Null /\ step' = "upload")]_vars

C4_Witness ==
    \E s \in DOMAIN subs :
        /\ Len(subs[s].files) = 2
        /\ Succeeded(subs[s].results[1])
        /\ Failed(subs[s].results[2])
        /\ subs[s].arrival = <<1, 2>>
        /\ subs[s].analyzeSent = 0
        /\ step = "upload"
        /\ error # Null

\* C9: every submission has sent exactly one extract request per file and at
\* most one analyze request, whether or not a request failed, and what it
\* sends to /api/analyze are the answers to its own requests.
C9_NoRetryNoReuse ==
    \A s \in DOMAIN subs :
        /\ \A i \in DOMAIN subs[s].files : subs[s].extractSent[i] = 1
        /\ subs[s].analyzeSent <= 1
        /\ subs[s].body # Null =>
              /\ subs[s].analyzeSent = 1
              /\ \A i \in DOMAIN subs[s].files :
                    subs[s].body.extractions[i] = subs[s].results[i].value

\* A second submission of a file whose first submission failed: it has sent
\* its own requests and analyses its own answer.
C9_Witness ==
    /\ Len(subs) = 2
    /\ HasFailure(subs[1])
    /\ \A i \in DOMAIN subs[1].files : ~IsPending(subs[1].results[i])
    /\ subs[2].files[1] \in { subs[1].files[i] : i \in DOMAIN subs[1].files }
    /\ subs[2].analyzeSent = 1
    /\ ~IsPending(subs[2].analyzeRes)

(***************************************************************************)
(* The two routes, one request each (specification SpecRoutes): rq is the  *)
(* request a client sends, rs the model's reply together with the route's  *)
(* response.                                                               *)
(***************************************************************************)
RouteExtractReplies ==
    {Throws, NonText, Garbage, TextReply(TRUE, FALSE, Null)}
    \cup { TextReply(f, TRUE, m) : f \in BOOLEAN, m \in {MonthA, MonthB} }

RouteAnalyzeReplies ==
    {Throws, NonText, Garbage, TextReply(TRUE, FALSE, Null)}
    \cup { TextReply(f, TRUE, AnalysisValue(sc)) : f \in BOOLEAN, sc \in ScoreValues }
    \cup { TextReply(FALSE, TRUE, a) : a \in PartialAnalyses \cup MonthlyAnalyses }

\* Objects a client may put into the extractions array
RouteExtractions ==
    { Spread([type |-> "monthly", filename |-> "jan.pdf"], MonthA),
      Spread([type |-> "monthly", filename |-> "feb.pdf"], MonthB),
      [type |-> "text", filename |-> "bank.csv", rawText |-> "file text"],
      [type |-> "monthly", filename |-> "mar.pdf"] }
    \cup { [type |-> "monthly", filename |-> "apr.pdf", period |-> "Apr 2024",
            credits |-> c, debits |-> d, openingBal |-> 0, closingBal |-> 0,
            topIncome |-> <<>>, topExpenses |-> <<>>] :
              c \in 0..MaxAmount, d \in 0..MaxAmount }

ExtractRequests ==
    { [route |-> "extract",
       req   |-> [readable |-> b, file |-> f, inputType |-> t]] :
         b \in BOOLEAN, f \in Files \cup {NoFile}, t \in InputTypes \cup {""} }

AnalyzeBodies ==
    { [inputType |-> t] : t \in InputTypes }
    \cup { [inputType |-> t, extractions |-> e] :
             t \in InputTypes, e \in SeqsUpTo(RouteExtractions, MaxFiles) }

AnalyzeRequests ==
    { [route |-> "analyze", req |-> [readable |-> b, body |-> body]] :
         b \in BOOLEAN, body \in AnalyzeBodies }

InitRoutes ==
    /\ WizardInit
    /\ apiKey \in ApiKeys
    /\ modelCalls = {}
    /\ rq \in ExtractRequests \cup AnalyzeRequests
    /\ rs = Pending
    /\ cv = Null

\* POST of /api/extract for the request rq
ServeExtract ==
    /\ rq.route = "extract"
    /\ IsPending(rs)
    /\ \E reply \in (IF ExtractCallsModel(rq.req, apiKey)
                     THEN RepliesFor(apiKey, RouteExtractReplies) ELSE {NoCall}) :
          /\ rs' = [reply |-> reply, res |-> ExtractRoute(rq.req, apiKey, reply)]
          /\ modelCalls' = IF reply = NoCall THEN modelCalls
                           ELSE modelCalls \cup {ExtractCall(0, 0)}
    /\ UNCHANGED <<wizardVars, apiKey, rq, cv>>

\* POST of /api/analyze for the request rq
ServeAnalyze ==
    /\ rq.route = "analyze"
    /\ IsPending(rs)
    /\ \E reply \in (IF AnalyzeCallsModel(rq.req, apiKey)
                     THEN RepliesFor(apiKey, RouteAnalyzeReplies) ELSE {NoCall}) :
          /\ rs' = [reply |-> reply, res |-> AnalyzeRoute(rq.req, apiKey, reply)]
          /\ modelCalls' = IF reply = NoCall THEN modelCalls
                           ELSE modelCalls \cup {AnalyzeCall(0)}
    /\ UNCHANGED <<wizardVars, apiKey, rq, cv>>

NextRoutes ==
    \/ ServeExtract
    \/ ServeAnalyze

SpecRoutes == InitRoutes /\ [][NextRoutes]_vars

(***************************************************************************)
(* The parallel conversion  (src/lib/convertBankStatements.ts:1-216),      *)
(* specification SpecConvert.  cv is one run of                            *)
(* convertBankStatementsToManagementAccounts: its files, the model's reply *)
(* to each PDF, what extractPDFMonthlyData settled with, the state of the  *)
(* returned promise and its value.                                         *)
(***************************************************************************)
ConvertMonths ==
    { [period |-> p, credits |-> c, debits |-> d, openingBal |-> c, closingBal |-> d,
       topIncome |-> <<>>, topExpenses |-> <<>>] :
         p \in {"Jan 2024", ""}, c \in 0..MaxAmount, d \in 0..MaxAmount }

ConvertReplies ==
    {Throws, NonText, Garbage, TextReply(TRUE, TRUE, MonthA)}
    \cup { TextReply(FALSE, TRUE, m) : m \in ConvertMonths }

\* The record of the catch block (convertBankStatements.ts:67-72)
ConvertFallback(file) ==
    [period |-> file.base, credits |-> 0, debits |-> 0, openingBal |-> 0,
     closingBal |-> 0, topIncome |-> <<>>, topExpenses |-> <<>>,
     error |-> [text |-> "Could not extract data from", file |-> file.name]]

\* extractPDFMonthlyData with no try/catch: a failure rejects its promise
extractPDFMonthlyDataNoCatch(file, reply) ==
    IF reply.kind = "throws" THEN [ok |-> FALSE, message |-> [text |-> "model call"]]
    ELSE LET raw    == IF reply.kind = "text" THEN reply
                       ELSE TextReply(FALSE, TRUE, EmptyObject)
             parsed == JSONParse(StripFences(raw))
         IN  IF parsed.ok THEN [ok |-> TRUE, value |-> parsed.value]
             ELSE [ok |-> FALSE, message |-> [text |-> "SyntaxError"]]

\* What the promise of extractPDFMonthlyData settles with
extractPDFMonthlyData(file, reply) ==
    IF reply.kind = "throws" THEN [ok |-> TRUE, value |-> ConvertFallback(file)]
    ELSE LET raw    == IF reply.kind = "text" THEN reply
                       ELSE TextReply(FALSE, TRUE, EmptyObject)
             parsed == JSONParse(StripFences(raw))
         IN  IF parsed.ok THEN [ok |-> TRUE, value |-> parsed.value]
             ELSE [ok |-> TRUE, value |-> ConvertFallback(file)]

\* m.credits > 0 || m.debits > 0
IsValidMonth(m) == Get(m, "credits", 0) > 0 \/ Get(m, "debits", 0) > 0

HasError(m) == "error" \in DOMAIN m

\* The document of buildManagementAccountsText, with its figures before
\* formatting
buildManagementAccountsText(months) ==
    LET validMonths  == SelectSeq(months, IsValidMonth)
        totalCredits == SumOf(validMonths, "credits")
        totalDebits  == SumOf(validMonths, "debits")
        periods      == PeriodsOf(validMonths)
        failed       == SelectSeq(months, HasError)
        failedMonths == [i \in 1..Len(failed) |-> failed[i].error]
    IN  [months       |-> Len(validMonths),
         totalCredits |-> totalCredits,
         totalDebits  |-> totalDebits,
         netProfit    |-> totalCredits - totalDebits,
         openingBal   |-> IF validMonths = <<>> THEN 0
                          ELSE Get(validMonths[1], "openingBal", 0),
         closingBal   |-> IF validMonths = <<>> THEN 0
                          ELSE Get(validMonths[Len(validMonths)], "closingBal", 0),
         periodRange  |-> IF periods = <<>> THEN <<"Full Year">>
                          ELSE <<periods[1], periods[Len(periods)]>>,
         monthRows    |-> [i \in 1..Len(validMonths) |->
                            [period  |-> IF Truthy(Get(validMonths[i], "period", ""))
                                         THEN validMonths[i].period ELSE "Unknown",
                             credits |-> validMonths[i].credits,
                             debits  |-> validMonths[i].debits,
                             net     |-> validMonths[i].credits - validMonths[i].debits]],
         failedMonths |-> failedMonths,
         note         |-> failedMonths # <<>>]

IsPdf(f) == f.ext = "pdf"

NotPdf(f) == ~IsPdf(f)

HasExtraText(f) == f.ext \in SpreadsheetExts \cup {"csv"}

\* The value the conversion resolves with, from the files and the settled
\* extractions (convertBankStatements.ts:178-215)
convertBankStatementsToManagementAccounts(files, monthExtractions) ==
    LET extra   == SelectSeq(SelectSeq(files, NotPdf), HasExtraText)
        periods == PeriodsOf(monthExtractions)
    IN  [convertedText    |-> [doc        |-> buildManagementAccountsText(monthExtractions),
                               additional |-> [i \in 1..Len(extra) |-> extra[i].name]],
         periodCovered    |-> IF periods # <<>>
                              THEN <<periods[1], periods[Len(periods)]>>
                              ELSE IF Len(files) > 0 THEN <<"Submitted period">>
                              ELSE <<"Full Year">>,
         transactionCount |-> Len(monthExtractions) * 30,
         totalCredits     |-> SumOf(monthExtractions, "credits"),
         totalDebits      |-> SumOf(monthExtractions, "debits")]

NewConversion(files) ==
    LET pdfFiles == SelectSeq(files, IsPdf)
    IN  [files    |-> files,
         pdfFiles |-> pdfFiles,
         replies  |-> [i \in 1..Len(pdfFiles) |-> Pending],
         settled  |-> [i \in 1..Len(pdfFiles) |-> Pending],
         state    |-> "pending",
         out      |-> Null]

ConvertCall(i) == [route |-> "convert", model |-> HaikuModel, s |-> 0, i |-> i]

InitConvert ==
    /\ WizardInit
    /\ apiKey \in ApiKeys
    /\ modelCalls = {}
    /\ rq = Null
    /\ rs = Null
    /\ cv \in { NewConversion(files) : files \in SeqsUpTo(Files, MaxFiles) }

\* The model call of PDF i returns or throws, and extractPDFMonthlyData settles
ConvertExtracted(i) ==
    /\ i \in DOMAIN cv.pdfFiles
    /\ IsPending(cv.settled[i])
    /\ \E reply \in RepliesFor(apiKey, ConvertReplies) :
          LET r == extractPDFMonthlyData(cv.pdfFiles[i], reply)
          IN  cv' = [cv EXCEPT !.replies[i] = reply,
                               !.settled[i] = r,
                               !.state = IF @ = "pending" /\ ~r.ok THEN "rejected" ELSE @]
    /\ modelCalls' = modelCalls \cup {ConvertCall(i)}
    /\ UNCHANGED <<wizardVars, apiKey, rq, rs>>

\* Promise.all has resolved (or there was no PDF): the rest of the function
ConvertFinish ==
    /\ cv.state = "pending"
    /\ PromiseAllResolved(cv.settled)
    /\ LET monthExtractions == [i \in 1..Len(cv.settled) |-> cv.settled[i].value]
       IN  cv' = [cv EXCEPT !.state = "resolved",
                            !.out = convertBankStatementsToManagementAccounts(
                                        cv.files, monthExtractions)]
    /\ UNCHANGED <<wizardVars, apiKey, modelCalls, rq, rs>>

NextConvert ==
    \/ \E i \in 1..MaxFiles : ConvertExtracted(i)
    \/ ConvertFinish

SpecConvert == InitConvert /\ [][NextConvert]_vars

(***************************************************************************)
(* The single-request pipeline  (src/unnamed/part_004 with the single-call *)
(* conversion of src/lib/convertBankStatements.ts:218-368), specification  *)
(* SpecLegacy.  rq is the form posted to the route, cv the handler's       *)
(* progress with the replies it got, rs its response.                      *)
(***************************************************************************)
LegacyRequests ==
    { [route |-> "legacy",
       req   |-> [readable |-> b, files |-> fs, inputType |-> t, model |-> m]] :
         b \in BOOLEAN, fs \in SeqsUpTo(Files, MaxFiles),
         t \in InputTypes \cup {""}, m \in AvailableModels }

\* formData.get('inputType') as string || 'management'
LegacyInputType(req) == IF req.inputType = "" THEN "management" ELSE req.inputType

\* The files that become content blocks of the conversion call
\* (convertBankStatements.ts:247-279)
HasContentBlock(f) == f.ext \in {"pdf", "csv"} \cup SpreadsheetExts

\* The management-accounts text a conversion reply may hold
AccountsWithPeriod == [document |-> "MANAGEMENT ACCOUNTS", period |-> "Mar 2024"]

AccountsWithoutPeriod == [document |-> "MANAGEMENT ACCOUNTS"]

LegacyConvertReplies ==
    {Throws, NonText, TextReply(FALSE, FALSE, AccountsWithPeriod),
     TextReply(FALSE, FALSE, AccountsWithoutPeriod)}

LegacyAnalyzeReplies ==
    {Throws, NonText, Garbage, TextReply(FALSE, TRUE, AnalysisValue(50)),
     TextReply(TRUE, TRUE, AnalysisValue(50)), TextReply(FALSE, TRUE, EmptyObject)}

\* What the single-call conversion settles with once its model call has
\* returned or thrown (convertBankStatements.ts:346-366)
convertBankStatementsSingleCall(reply) ==
    IF reply.kind = "throws" THEN [ok |-> FALSE, message |-> [text |-> "model call"]]
    ELSE LET convertedText == IF reply.kind = "text" THEN reply.value ELSE EmptyObject
         IN  [ok |-> TRUE,
              value |-> [convertedText |-> convertedText,
                         periodCovered |-> Get(convertedText, "period", "Full Year")]]

LegacyErrorPrefix == [part |-> "[Demo Mode - analysis error] "]

LegacyDemo ==
    Json(200, [getMockAnalysis EXCEPT
                 !.healthSummary = <<LegacyErrorPrefix>> \o getMockAnalysis.healthSummary])

\* Variant for comparison: a failed conversion falls back to the demo analysis
LegacyConversionDemo == LegacyDemo

\* The catch of stage 1 (part_004:51-57)
LegacyConversionFailed ==
    Json(500, [error |-> "Bank statement conversion failed: ..."])

LegacyConvertCall == [route |-> "convert", model |-> HaikuModel, s |-> 0, i |-> 0]

LegacyAnalyzeCall == [route |-> "analyze", model |-> SonnetModel, s |-> 0, i |-> 0]

LegacyProgress(stage) ==
    [stage |-> stage, converted |-> Null, convertReply |-> NoCall, analyzeReply |-> NoCall]

InitLegacy ==
    /\ WizardInit
    /\ apiKey \in ApiKeys
    /\ modelCalls = {}
    /\ rq \in LegacyRequests
    /\ rs = Pending
    /\ cv = LegacyProgress("received")

\* POST up to its first model call (part_004:9-43, 80-91)
LegacyReceive ==
    /\ rq.route = "legacy"
    /\ cv.stage = "received"
    /\ LET req == rq.req
       IN  IF ~req.readable
           THEN /\ rs' = Json(500, [error |-> "Analysis failed: ..."])
                /\ cv' = [cv EXCEPT !.stage = "done"]
                /\ UNCHANGED modelCalls
           ELSE IF req.files = <<>>
           THEN /\ rs' = Json(400, [error |-> "No files uploaded"])
                /\ cv' = [cv EXCEPT !.stage = "done"]
                /\ UNCHANGED modelCalls
           ELSE IF AnalyzeKeyMissing(apiKey)
           THEN /\ rs' = Json(200, getMockAnalysis)
                /\ cv' = [cv EXCEPT !.stage = "done"]
                /\ UNCHANGED modelCalls
           ELSE IF LegacyInputType(req) = "bank"
           THEN IF SelectSeq(req.files, HasContentBlock) = <<>>
                THEN /\ rs' = LegacyConversionFailed
                     /\ cv' = [cv EXCEPT !.stage = "done"]
                     /\ UNCHANGED modelCalls
                ELSE /\ cv' = [cv EXCEPT !.stage = "converting"]
                     /\ modelCalls' = modelCalls \cup {LegacyConvertCall}
                     /\ UNCHANGED rs
           ELSE /\ cv' = [cv EXCEPT !.stage = "analysing"]
                /\ modelCalls' = modelCalls \cup {LegacyAnalyzeCall}
                /\ UNCHANGED rs
    /\ UNCHANGED <<wizardVars, apiKey, rq>>

\* The conversion call returns or throws (part_004:43-61)
LegacyConverted ==
    /\ cv.stage = "converting"
    /\ \E reply \in RepliesFor(apiKey, LegacyConvertReplies) :
          LET converted == convertBankStatementsSingleCall(reply)
          IN  IF converted.ok
              THEN /\ cv' = [cv EXCEPT !.stage = "analysing",
                                       !.converted = converted.value,
                                       !.convertReply = reply]
                   /\ modelCalls' = modelCalls \cup {LegacyAnalyzeCall}
                   /\ UNCHANGED rs
              ELSE /\ cv' = [cv EXCEPT !.stage = "done", !.convertReply = reply]
                   /\ rs' = LegacyConversionFailed
                   /\ UNCHANGED modelCalls
    /\ UNCHANGED <<wizardVars, apiKey, rq>>

\* The analysis call returns or throws (part_004:61-78, 84-98)
LegacyAnalysed ==
    /\ cv.stage = "analysing"
    /\ \E reply \in RepliesFor(apiKey, LegacyAnalyzeReplies) :
          LET res  == analyzeFinancials(reply)
              note == IF cv.converted = Null THEN <<>>
                      ELSE <<[part |-> "[Converted from bank statements covering",
                              period |-> cv.converted.periodCovered]>>
          IN  /\ cv' = [cv EXCEPT !.stage = "done", !.analyzeReply = reply]
              /\ rs' = IF ~res.ok THEN LegacyDemo
                       ELSE IF note = <<>> THEN Json(200, res.value)
                       ELSE Json(200, Spread(res.value,
                                   [healthSummary |->
                                      note \o Get(res.value, "healthSummary", Undefined)]))
    /\ UNCHANGED <<wizardVars, apiKey, modelCalls, rq>>

NextLegacy ==
    \/ LegacyReceive
    \/ LegacyConverted
    \/ LegacyAnalysed

SpecLegacy == InitLegacy /\ [][NextLegacy]_vars

(***************************************************************************)
(* Properties of one submission (specification SpecPipeline).              *)
(***************************************************************************)
Min(S) == CHOOSE i \in S : \A j \in S : i <= j

Max(S) == CHOOSE i \in S : \A j \in S : i >= j

\* The files of a submission, by position, whose extraction is 'monthly'
MonthlyFiles(sub) ==
    { i \in DOMAIN sub.files :
        Succeeded(sub.results[i]) /\ IsMonthly(sub.results[i].value) }

\* ... and, among them, those whose extraction has a non-empty period
PeriodFiles(sub) ==
    { i \in MonthlyFiles(sub) : Truthy(Get(sub.results[i].value, "period", "")) }

InOrder(sub) ==
    /\ Len(sub.body.extractions) = Len(sub.files)
    /\ \A i \in DOMAIN sub.files : sub.body.extractions[i] = sub.results[i].value

\* C3 as stated: the array sent to /api/analyze has one entry per file, in the
\* order of the file list, and in bank mode the first and last monthly records
\* are the extractions of the first and last uploaded files.
C3_ExtractionsInFileOrder ==
    \A s \in DOMAIN subs :
        subs[s].body # Null =>
            /\ InOrder(subs[s])
            /\ LET monthly == SelectSeq(subs[s].body.extractions, IsMonthly)
               IN  subs[s].inputType = "bank" /\ monthly # <<>> =>
                      /\ monthly[1] = subs[s].results[1].value
                      /\ monthly[Len(monthly)] = subs[s].results[Len(subs[s].files)].value

\* C3 amended: the array sent to /api/analyze has one entry per file, in the
\* order of the file list, and in bank mode the document's opening and closing
\* balance are those of the first and last uploaded files whose extraction is
\* 'monthly', and its period range runs from the first to the last of these
\* that has a non-empty period.
C3_ExtractionsInFileOrderAmended ==
    \A s \in DOMAIN subs :
        subs[s].body # Null =>
            /\ InOrder(subs[s])
            /\ LET sub == subs[s]
                   doc == buildManagementAccountsFromExtractions(sub.body.extractions)
                   M   == MonthlyFiles(sub)
                   P   == PeriodFiles(sub)
               IN  sub.inputType = "bank" =>
                      /\ doc.months = Cardinality(M)
                      /\ M # {} =>
                            /\ doc.openingBal = Get(sub.results[Min(M)].value, "openingBal", 0)
                            /\ doc.closingBal = Get(sub.results[Max(M)].value, "closingBal", 0)
                      /\ P # {} =>
                            doc.periodRange = <<sub.results[Min(P)].value.period,
                                                sub.results[Max(P)].value.period>>

\* A bank submission of a CSV and a PDF, the PDF answered first
C3_Witness ==
    /\ Len(subs) = 1
    /\ subs[1].inputType = "bank"
    /\ Len(subs[1].files) = 2
    /\ subs[1].files[1].ext = "csv"
    /\ subs[1].files[2].ext = "pdf"
    /\ subs[1].arrival = <<2, 1>>
    /\ subs[1].body # Null
    /\ MonthlyFiles(subs[1]) = {2}
    /\ buildManagementAccountsFromExtractions(subs[1].body.extractions).openingBal = 1

\* C8: with no usable API key (unset, or the placeholder) no model call is
\* made, every PDF is answered with the empty placeholder record, and the
\* submission ends on the dashboard with the 'DEMO MODE' analysis.
C8_NoKeyDemo ==
    [][AnalyzeKeyMissing(apiKey) =>
         /\ modelCalls' = {}
         /\ \A s \in DOMAIN subs' :
              /\ subs'[s].settled # "rejected"
              /\ \A i \in DOMAIN subs'[s].files :
                    ~IsPending(subs'[s].results[i]) /\ subs'[s].files[i].ext = "pdf" =>
                        /\ subs'[s].results[i].ok
                        /\ subs'[s].results[i].value = ExtractPlaceholder(subs'[s].files[i])
              /\ s \in DOMAIN subs /\ IsPending(subs[s].analyzeRes)
                   /\ ~IsPending(subs'[s].analyzeRes) =>
                        /\ step' = "dashboard"
                        /\ analysis' # Null
                        /\ Head(analysis'.healthSummary) = NoKeyPrefix]_vars

(***************************************************************************)
(* Properties of the routes (specification SpecRoutes).                    *)
(***************************************************************************)
Answered(route) == rq # Null /\ rq.route = route /\ ~IsPending(rs)

\* The reply is a text that is not JSON once its code fences are removed
NotJson(reply) == reply.kind = "text" /\ ~reply.valid

\* C5: a bank-statement PDF whose extraction reply is not valid JSON is
\* answered 200 with the fallback record: zero amounts, empty lists, the file
\* name as period; no error response.
C5_InvalidJsonFallsBack ==
    Answered("extract") /\ ExtractInputType(rq.req) = "bank" /\ NotJson(rs.reply) =>
        /\ rs.res.status = 200
        /\ "error" \notin DOMAIN rs.res.body
        /\ rs.res.body.type = "monthly"
        /\ rs.res.body.period = rq.req.file.name
        /\ \A k \in {"credits", "debits", "openingBal", "closingBal"} : rs.res.body[k] = 0
        /\ rs.res.body.topIncome = <<>>
        /\ rs.res.body.topExpenses = <<>>

C5_Witness ==
    /\ Answered("extract")
    /\ rq.req.file.name = "jan.pdf"
    /\ rq.req.inputType = "bank"
    /\ rs.reply = Garbage
    /\ rs.res.body.period = "jan.pdf"

\* C7: when the analysis model call throws or its reply is not valid JSON,
\* /api/analyze answers 200 with the demo analysis whose summary starts with
\* '[Demo Mode - API error] '; it answers 500 only when it made no model call.
C7_ModelFailureGivesDemo ==
    Answered("analyze") =>
        /\ rs.reply.kind \in {"throws", "nonText"} \/ NotJson(rs.reply) =>
              /\ rs.res.status = 200
              /\ IsOk(rs.res.status)
              /\ rs.res.body.healthSummary = <<ApiErrorPrefix>> \o getMockAnalysis.healthSummary
              /\ rs.res.body.healthScore = getMockAnalysis.healthScore
        /\ rs.res.status = 500 => rs.reply = NoCall /\ ~rq.req.readable

C7_Witness ==
    /\ Answered("analyze")
    /\ rs.reply = Throws
    /\ apiKey = KeyValid
    /\ rs.res.status = 200
    /\ Head(rs.res.body.healthSummary) = ApiErrorPrefix

\* C10: every analysis that /api/analyze answers with status 200 has a
\* healthScore between 0 and 100 inclusive.
C10_HealthScoreInRange ==
    Answered("analyze") /\ rs.res.status = 200 =>
        /\ "healthScore" \in DOMAIN rs.res.body
        /\ rs.res.body.healthScore \in 0..100

(***************************************************************************)
(* Properties of the parallel conversion (specification SpecConvert).      *)
(***************************************************************************)
\* The model call threw, or its reply does not parse
PdfFailed(reply) == ~IsPending(reply) /\ (reply.kind = "throws" \/ NotJson(reply))

FailedPdfs == { i \in DOMAIN cv.replies : PdfFailed(cv.replies[i]) }

\* What the model reported for each PDF: nothing for a failed one
Reported ==
    [i \in DOMAIN cv.replies |->
        IF cv.replies[i].kind = "text" /\ cv.replies[i].valid
        THEN cv.replies[i].value ELSE EmptyObject]

C11_TwelveMonths ==
    Answered("analyze") /\ rs.res.status = 200 =>
        /\ "monthlyData" \in DOMAIN rs.res.body
        /\ Len(rs.res.body.monthlyData) = 12
        /\ \A i \in DOMAIN rs.res.body.monthlyData :
              {"month", "revenue", "expenses"} \subseteq DOMAIN rs.res.body.monthlyData[i]

\* The fields of the analysis that DashboardScreen dereferences
DashboardFields ==
    {"kpis", "monthlyData", "recommendations", "supportAreas", "keyStrengths",
     "keyRisks", "healthScore", "healthSummary"}

\* C12: every analysis object handed to DashboardScreen contains all the
\* fields the dashboard dereferences, whatever well-formed JSON the model
\* replied with.
C12_DashboardFieldsPresent ==
    step = "dashboard" /\ analysis # Null => DashboardFields \subseteq DOMAIN analysis

\* The model's reply parses to a JSON value
Parsed(reply) == reply.kind = "text" /\ reply.valid

CallsOf(s) == { c \in modelCalls : c.s = s }

PdfPositions(sub) == { i \in DOMAIN sub.files : sub.files[i].ext = "pdf" }

\* C13 as stated: in every bank-statement submission the conversion into the
\* management-accounts document is a model call of its own, made after
\* extraction and before the analysis call.
C13_ConversionByModelCall ==
    \A s \in DOMAIN subs :
        subs[s].inputType = "bank" /\ AnalyzeCall(s) \in modelCalls =>
            \E c \in CallsOf(s) : c.route \notin {"extract", "analyze"}

\* C13 amended: the only model calls of a submission are one Haiku extraction
\* call per PDF whose request was served and, after every extraction has
\* succeeded, one Sonnet analysis call; in bank mode the management-accounts
\* document is built inside /api/analyze from the extractions, with no model
\* call between extraction and analysis.
C13_ConversionWithoutModelCall ==
    \A s \in DOMAIN subs :
        /\ \A c \in CallsOf(s) :
              \/ /\ c.route = "extract"
                 /\ c.model = HaikuModel
                 /\ c.i \in PdfPositions(subs[s])
                 /\ ~IsPending(subs[s].results[c.i])
              \/ /\ c.route = "analyze"
                 /\ c.model = SonnetModel
                 /\ subs[s].body # Null
                 /\ \A i \in DOMAIN subs[s].files : Succeeded(subs[s].results[i])
        /\ Cardinality(CallsOf(s)) <= Cardinality(PdfPositions(subs[s])) + 1

C13_Witness ==
    /\ Len(subs) = 1
    /\ subs[1].inputType = "bank"
    /\ Len(subs[1].files) = 2
    /\ PdfPositions(subs[1]) = {2}
    /\ { c.route : c \in modelCalls } = {"extract", "analyze"}
    /\ step = "dashboard"

\* The positions of the 'monthly' entries of an extractions array
MonthlyPositions(ext) ==
    { i \in DOMAIN ext : "type" \in DOMAIN ext[i] /\ ext[i].type = "monthly" }

RECURSIVE SumAt(_, _, _)
\* The sum of ext[i][key] over the positions S, a missing value counting as 0
SumAt(ext, key, S) ==
    IF S = {} THEN 0
    ELSE LET i == CHOOSE j \in S : TRUE
         IN  (IF key \in DOMAIN ext[i] THEN ext[i][key] ELSE 0)
             + SumAt(ext, key, S \ {i})

RECURSIVE NetColumn(_)
\* The sum of the Net column of a sequence of rows
NetColumn(rows) ==
    IF rows = <<>> THEN 0 ELSE Head(rows).net + NetColumn(Tail(rows))

\* /api/analyze has built the bank-mode document for the request rq
BankDocumentBuilt ==
    /\ Answered("analyze")
    /\ AnalyzeCallsModel(rq.req, apiKey)
    /\ rq.req.body.inputType = "bank"

\* A printed figure p (whole rand) is the amount x rounded to the nearest rand
Rounds(p, x) ==
    LET diff == p * AmountScale - x
    IN  2 * diff <= AmountScale /\ 2 * (0 - diff) <= AmountScale

\* C15 as stated: the bank-mode document reports total revenue as the sum of
\* the credits of the 'monthly' extractions, total expenses as the sum of
\* their debits, net profit as total revenue minus total expenses, which
\* equals the sum of the Net column of the monthly rows.
C15_DocumentTotals ==
    BankDocumentBuilt =>
        LET ext == rq.req.body.extractions
            M   == MonthlyPositions(ext)
            p   == PrintedAccounts(AnalyzePrompt(rq.req.body))
        IN  /\ p.totalRevenue * AmountScale = SumAt(ext, "credits", M)
            /\ p.totalExpenses * AmountScale = SumAt(ext, "debits", M)
            /\ p.netProfit = p.totalRevenue - p.totalExpenses
            /\ p.netProfit = NetColumn(p.monthRows)

\* C15 amended: the bank-mode document computes total revenue as the sum of
\* the credits of the 'monthly' extractions, total expenses as the sum of
\* their debits (a missing value counting as 0, 'text' extractions counting
\* for nothing), net profit as their difference, which equals the sum of the
\* rows' net amounts; each figure is printed rounded to the whole rand.
C15_DocumentTotalsRounded ==
    BankDocumentBuilt =>
        LET ext == rq.req.body.extractions
            M   == MonthlyPositions(ext)
            doc == AnalyzePrompt(rq.req.body)
            p   == PrintedAccounts(doc)
        IN  /\ doc.totalCredits = SumAt(ext, "credits", M)
            /\ doc.totalDebits = SumAt(ext, "debits", M)
            /\ doc.netProfit = doc.totalCredits - doc.totalDebits
            /\ doc.netProfit = NetColumn(doc.monthRows)
            /\ Len(doc.monthRows) = Cardinality(M)
            /\ Rounds(p.totalRevenue, doc.totalCredits)
            /\ Rounds(p.totalExpenses, doc.totalDebits)
            /\ Rounds(p.netProfit, doc.netProfit)
            /\ \A i \in DOMAIN p.monthRows : Rounds(p.monthRows[i].net, doc.monthRows[i].net)

\* Two months of half a rand of credits each: the rows print 1 and 1, the
\* total prints 1
C15_Witness ==
    /\ BankDocumentBuilt
    /\ Len(rq.req.body.extractions) = 2
    /\ MonthlyPositions(rq.req.body.extractions) = {1, 2}
    /\ AnalyzePrompt(rq.req.body).totalCredits = 2
    /\ AnalyzePrompt(rq.req.body).totalDebits = 0
    /\ PrintedAccounts(AnalyzePrompt(rq.req.body)).netProfit = 1
    /\ NetColumn(PrintedAccounts(AnalyzePrompt(rq.req.body)).monthRows) = 2

\* /api/extract has read the request rq and found a file in it
FileReceived == Answered("extract") /\ rq.req.readable /\ rq.req.file # NoFile

\* C16: spreadsheet and CSV files are extracted to plain text without any
\* model call, whatever the inputType and the API key; only files whose
\* extension is pdf are ever sent to the model.
C16_OnlyPdfReachesModel ==
    Answered("extract") =>
        /\ FileReceived /\ rq.req.file.ext \in {"xlsx", "xls", "xlsm", "csv"} =>
              /\ rs.reply = NoCall
              /\ modelCalls = {}
              /\ rs.res.status = 200
              /\ rs.res.body.type = "text"
              /\ "rawText" \in DOMAIN rs.res.body
        /\ modelCalls # {} \/ rs.reply # NoCall => FileReceived /\ rq.req.file.ext = "pdf"

C16_Witness ==
    /\ FileReceived
    /\ rq.req.file.ext = "xlsx"
    /\ rq.req.inputType = "bank"
    /\ apiKey = KeyValid
    /\ rs.res.status = 200
    /\ rs.res.body.type = "text"

C18_NoExtractionsIs400 ==
    /\ Answered("analyze")
    /\ rq.req.readable
    /\ "extractions" \notin DOMAIN rq.req.body \/ rq.req.body.extractions = <<>>
    => /\ rs.res.status = 400
       /\ rs.res.body = [error |-> "No extracted data provided"]
       /\ rs.reply = NoCall
       /\ modelCalls = {}

C18_Witness ==
    /\ Answered("analyze")
    /\ rq.req.readable
    /\ "extractions" \in DOMAIN rq.req.body
    /\ rq.req.body.extractions = <<>>
    /\ apiKey = KeyUnset
    /\ rs.res.status = 400

\* The requests a submission sends: one per file to /api/extract and the body
\* for /api/analyze once it has been built
RequestsOf(sub) ==
    { [route |-> "extract", req |-> ExtractRequest(sub.files[i], sub.inputType)] :
        i \in DOMAIN sub.files }
    \cup (IF sub.body = Null THEN {} ELSE {[route |-> "analyze", req |-> sub.body]})

LegacyBank == rq # Null /\ rq.route = "legacy" /\ LegacyInputType(rq.req) = "bank"

\* C19: in the single-request bank pipeline the analysis call is made only
\* after the conversion call has returned successfully; a failed conversion is
\* answered 500 'Bank statement conversion failed' with no analysis call and
\* no demo analysis, a failed analysis is answered 200 with the demo analysis.
C19_StagesInOrder ==
    LegacyBank =>
        /\ LegacyAnalyzeCall \in modelCalls =>
              /\ LegacyConvertCall \in modelCalls
              /\ cv.convertReply.kind \in {"text", "nonText"}
              /\ cv.converted # Null
        /\ cv.convertReply.kind = "throws" =>
              /\ rs.status = 500
              /\ rs.body = [error |-> "Bank statement conversion failed: ..."]
              /\ LegacyAnalyzeCall \notin modelCalls
              /\ cv.analyzeReply = NoCall
        /\ /\ cv.stage = "done"
           /\ rq.req.readable
           /\ rq.req.files # <<>>
           /\ apiKey = KeyValid
           /\ \A i \in DOMAIN rq.req.files :
                 rq.req.files[i].ext \notin {"pdf", "csv", "xlsx", "xls", "xlsm"}
           => /\ rs.status = 500
              /\ rs.body = [error |-> "Bank statement conversion failed: ..."]
              /\ modelCalls = {}
        /\ cv.analyzeReply.kind \in {"throws", "nonText"} \/ NotJson(cv.analyzeReply) =>
              /\ rs.status = 200
              /\ rs.body.healthScore = MockHealthScore
              /\ Head(rs.body.healthSummary) = [part |-> "[Demo Mode - analysis error] "]

C19_Witness ==
    /\ LegacyBank
    /\ cv.stage = "done"
    /\ cv.convertReply = Throws
    /\ apiKey = KeyValid
    /\ modelCalls = {LegacyConvertCall}
    /\ rs.status = 500

(***************************************************************************)
(* Properties of overlapping submissions (specification Spec).             *)
(***************************************************************************)
\* The step in which the handler of submission s reaches its end
Completes(s) == HandlerRunning(subs[s]) /\ ~HandlerRunning(subs'[s])

\* C21: once the user is back on 'choose' through New Analysis while a
\* submission is still running, the completion of that submission changes
\* neither the step nor the stored analysis nor the error message.
C21_StaleCompletionIgnored ==
    [][\A s \in DOMAIN subs :
          /\ step = "choose"
          /\ analysis = Null
          /\ error = Null
          /\ Completes(s)
          => UNCHANGED <<step, analysis, error>>]_vars

\* C22: when the most recently started submission began while an earlier one
\* was still running, then once all of them have completed the dashboard
\* shows the analysis of the most recently started one.
C22_LatestSubmissionShown ==
    LET last == Len(subs)
    IN  /\ last >= 2
        /\ subs[last].overlaps # {}
        /\ \A s \in DOMAIN subs : ~HandlerRunning(subs[s])
        /\ step = "dashboard"
        => /\ subs[last].settled = "resolved"
           /\ IsOk(subs[last].analyzeRes.status)
           /\ analysis = subs[last].analyzeRes.body

\* C23: the error message is null whenever the step is 'processing' or
\* 'dashboard'.
C23_NoErrorOverProcessingOrReport ==
    step \in {"processing", "dashboard"} => error = Null

====
